---- MODULE Spec2Model ----
(***************************************************************************)
(* LabJack T7 acquisition scripts: Multiplexer.py (120-channel monitor     *)
(* with CSV logging, history and slider), lj_temp.py (two-channel voltage  *)
(* and temperature logger with a 1000-point window) and the Chebyshev      *)
(* voltage-to-temperature conversion cheb_eq they share.                   *)
(*                                                                         *)
(* Numbers are fixed point.  Voltages are integers in units of 1e-4 V,     *)
(* times in units of 1e-4 s, the normalised argument k and the Chebyshev   *)
(* terms in units of 1e-3, the coefficients a0..a6 in units of 1e-3, and   *)
(* a temperature (a coefficient times a term) in units of 1e-6 degree.     *)
(* round(x, 3) therefore rounds a voltage or a time to a multiple of 10    *)
(* and a temperature to a multiple of 1000.                                *)
(***************************************************************************)
EXTENDS Integers, Sequences, FiniteSets, TLC

VARIABLES
    script,            \* which script this run executes
    pc,                \* position of the script's single thread
    exc,               \* exception in flight ("none" when there is none)
    handle,            \* LabJack handle: "open" or "closed"
    close_calls,       \* number of ljm.close(handle) calls made
    clock,             \* time.time() - start_time
    files,             \* file name -> on-disk lines, pending buffer, stream state
    files0,            \* the files as they were when the script started
    file_exists,       \* Multiplexer.py: os.path.isfile(CSV_FILENAME)
    iteration_count,   \* Multiplexer.py: loop counter; lj_temp.py: cycles completed
    timestamp,         \* Multiplexer.py: this cycle's rounded time
    voltages,          \* this cycle's batched reading (channel -> voltage)
    temperatures,      \* Multiplexer.py: this cycle's rounded temperatures
    i,                 \* Multiplexer.py: index of the history append loop
    time_history,      \* Multiplexer.py: all timestamps
    voltage_history,   \* Multiplexer.py: channel -> all voltages
    current_channel,   \* Multiplexer.py: channel the slider selected
    views,             \* what the figure shows (bars, lines, title)
    device_log,        \* readings the device has returned, in order
    refresh_log,       \* cycles in which the bars / the line plots were refreshed
    now,               \* lj_temp.py: this cycle's time
    real_voltage,      \* lj_temp.py: ain1 - ain0
    temp_kelvin,       \* lj_temp.py: cheb_eq(real_voltage)
    time_data,         \* lj_temp.py: time buffer
    real_voltage_data, \* lj_temp.py: voltage buffer
    ain1_data,         \* lj_temp.py: AIN1 buffer
    temp_data,         \* lj_temp.py: temperature buffer
    sample_log,        \* lj_temp.py, lj_log.py: every sample appended so far
    ain0_data,         \* lj_log.py: |AIN0| buffer
    diff_data,         \* lj_log.py: |AIN0 - AIN1| buffer
    pops,              \* lj_log.py: pop(0) calls made on each buffer
    Zv_arg,            \* conversion check: the voltage handed to cheb_eq
    cheb_result        \* conversion check: what the two cheb_eq variants returned

vars == <<script, pc, exc, handle, close_calls, clock, files, files0, file_exists,
          iteration_count, timestamp, voltages, temperatures, i, time_history,
          voltage_history, current_channel, views, device_log, refresh_log,
          now, real_voltage, temp_kelvin, time_data, real_voltage_data,
          ain1_data, temp_data, sample_log, ain0_data, diff_data, pops,
          Zv_arg, cheb_result>>

tempVars == <<now, real_voltage, temp_kelvin, time_data, real_voltage_data,
              ain1_data, temp_data, sample_log>>

logVars == <<ain0_data, diff_data, pops>>

chebVars == <<Zv_arg, cheb_result>>

-----------------------------------------------------------------------------
(* Bounds of the model *)

\* Channels of the multiplexer (120 in Multiplexer.py, scaled down).
MUX_CHANNELS == 2

\* Acquisition cycles a run of Multiplexer.py may start.
MaxCycles == 25

\* Points lj_temp.py keeps in its buffers (1000 in lj_temp.py, scaled down).
KEEP_POINTS == 3

\* Lines a text stream holds back before it writes them out on its own
\* (io.DEFAULT_BUFFER_SIZE bytes in CPython, scaled down to lines).
BufferLines == 2

\* Cycles a run of lj_temp.py may start: enough to overflow the buffers by 5.
MaxTempCycles == KEEP_POINTS + 5

\* Seconds of data lj_log.py keeps, in 1e-4 s (60 s in lj_log.py, scaled down
\* to just under three cycles).
PLOT_WINDOW == 6000

\* Cycles a run of lj_log.py may start.
MaxLogCycles == 5

\* What the wall clock may add between two cycles of lj_log.py on top of the
\* sleep, in 1e-4 s: set back by 0.3 s, steady, or held up for 0.5 s.
ClockJumps == {0 - 3000, 0, 5000}

\* Voltages lj_log.py's inputs may report, in 1e-4 V: negative, zero, positive.
LogVoltSeq == <<0 - 15000, 0, 28625>>

\* Voltages the device may report, in 1e-4 V: below, inside (2.8625 V) and
\* above the calibrated interval.
VoltSeq == <<0, 28625, 50000>>

Volts == {VoltSeq[n] : n \in 1..Len(VoltSeq)}

\* Cycles in which the device's reading is unconstrained; in the other cycles
\* it follows a fixed ramp through VoltSeq.
FreeCycles == {0}

\* Time from start_time to the first clock read, in 1e-4 s.
StartupDelays == {4}

\* Voltages the conversion is checked on: -1 V .. 6 V in steps of 50 mV.
ChebGrid == {500 * n : n \in -20..120}

-----------------------------------------------------------------------------
(* Program constants *)

SAMPLING_INTERVAL == 2500
SAMPLING_INTERVAL_temp == 2000
SAMPLING_INTERVAL_log == 2000
PAUSE == 100
PLOT_UPDATE_INTERVAL == 10
INITIAL_TIME_WINDOW == 600000
a0 == 207313
a1 == -126180
a2 == -3929
a3 == -943
a4 == -215
a5 == -75
a6 == -17
Zl == 4970
Zu == 10306
offset_v == 22896

CSV_FILENAME == "labjack_data.csv"
CSV_VOLTAGE_FILE == "time_voltage.csv"
CSV_TEMP_FILE == "time_temp.csv"

FileNames == {CSV_FILENAME, CSV_VOLTAGE_FILE, CSV_TEMP_FILE}

Channels == 0..(MUX_CHANNELS - 1)

\* Fixed-point unit of k and of the Chebyshev terms.
One == 10 ^ 3

\* What numpy returns for arccos outside [-1, 1], and anything computed from
\* it: a value no finite result can take.
NaN == 0 - 2147483647

-----------------------------------------------------------------------------
(* Numeric helpers *)

\* round(x, 3) on a value whose third decimal is the unit u: to the nearest
\* multiple of u, ties to the even multiple.
RoundTo(x, u) ==
    LET q == x \div u
        r == x % u
    IN  IF 2 * r > u \/ (2 * r = u /\ q % 2 = 1) THEN (q + 1) * u ELSE q * u

Round3V(x) == RoundTo(x, 10)

Round3T(x) == IF x = NaN THEN NaN ELSE RoundTo(x, 1000)

\* np.clip(k, -1, 1)
clip(k) == IF k < -One THEN -One ELSE IF k > One THEN One ELSE k

\* k = ((Zv - Zl) - (Zu - Zv)) / (Zu - Zl), after Zv = Zv - offset_v
NormK(Zv) ==
    LET Z == Zv - offset_v
    IN  (((Z - Zl) - (Zu - Z)) * One) \div (Zu - Zl)

\* cos(n * arccos(k)) for k in [-1, 1]: the Chebyshev polynomial T_n(k),
\* T_0 = 1, T_1 = k, T_(n+1) = 2 k T_n - T_(n-1).
RECURSIVE CosN(_, _)
CosN(n, k) ==
    IF n = 0 THEN One
    ELSE IF n = 1 THEN k
    ELSE ((2 * k * CosN(n - 1, k)) \div One) - CosN(n - 2, k)

\* The seven-term sum of cheb_eq for an argument of arccos inside [-1, 1].
ChebSum(k) ==
    a0 * CosN(0, k) + a1 * CosN(1, k) + a2 * CosN(2, k) + a3 * CosN(3, k)
    + a4 * CosN(4, k) + a5 * CosN(5, k) + a6 * CosN(6, k)

\* Multiplexer.py cheb_eq: arccos of the clipped k.
cheb_eq(Zv) == ChebSum(clip(NormK(Zv)))

\* lj_temp.py cheb_eq: arccos of k itself; numpy returns nan outside [-1, 1]
\* (a RuntimeWarning, no exception) and every cosine of nan is nan.
lj_temp_cheb_eq(Zv) ==
    LET k == NormK(Zv)
    IN  IF k < -One \/ k > One THEN NaN ELSE ChebSum(k)

\* The ends of the calibrated interval, as raw voltages: k is -1 and 1 there.
LowerBoundary == Zl + offset_v

UpperBoundary == Zu + offset_v

ChebIdle == [mux |-> "pending", lj_temp |-> "pending", T_mux |-> 0, T_lj_temp |-> 0]

Max(a, b) == IF a >= b THEN a ELSE b

Last(s) == s[Len(s)]

\* s[-n:] of Python, for n >= 1
LastN(s, n) == IF Len(s) <= n THEN s ELSE SubSeq(s, Len(s) - n + 1, Len(s))

-----------------------------------------------------------------------------
(* The Record Sink: a text file behind a buffered stream *)

NoFile == [present |-> FALSE, disk |-> <<>>, buf |-> <<>>, stream |-> "none",
           closes |-> 0]

HeaderLine(names) == [kind |-> "header", values |-> names]

RowLine(cells) == [kind |-> "row", values |-> cells]

\* A file an earlier run of the same script left behind: a header and one row.
OldFile(names, cells) ==
    [NoFile EXCEPT !.present = TRUE, !.disk = <<HeaderLine(names), RowLine(cells)>>]

\* open(name, mode='a'): created when absent, content kept.
OpenAppend(f) == [f EXCEPT !.present = TRUE, !.stream = "open"]

\* open(name, mode='w'): created when absent, content dropped.
OpenWrite(f) == [f EXCEPT !.present = TRUE, !.disk = <<>>, !.stream = "open"]

\* writer.writerow(row): the line goes to the stream's buffer, which the stream
\* writes out by itself only once it holds more than it has room for.
WriteRow(f, line) ==
    LET b == Append(f.buf, line)
    IN  IF Len(b) > BufferLines
        THEN [f EXCEPT !.disk = f.disk \o b, !.buf = <<>>]
        ELSE [f EXCEPT !.buf = b]

\* csvfile.flush()
FlushFile(f) == [f EXCEPT !.disk = f.disk \o f.buf, !.buf = <<>>]

\* csvfile.close(), also what leaving the with block does: flush, then close.
CloseFile(f) ==
    [f EXCEPT !.disk = f.disk \o f.buf, !.buf = <<>>, !.stream = "closed",
              !.closes = f.closes + 1]

\* No buffer of lj_log.py has been popped.
NoPops == [time_data |-> 0, ain0_data |-> 0, ain1_data |-> 0, diff_data |-> 0]

-----------------------------------------------------------------------------
(* The Acquisition Device *)

AllReadings(chans) == [chans -> Volts]

Ramp(chans, n) == [c \in chans |-> VoltSeq[((n + c) % Len(VoltSeq)) + 1]]

\* What ljm.eReadNames may return in cycle n.
DeviceReadings(chans, n) ==
    IF n \in FreeCycles THEN AllReadings(chans) ELSE {Ramp(chans, n)}

-----------------------------------------------------------------------------
(* Multiplexer.py *)

\* ["Timestamp"] + [f"AIN{i}_Voltage" ...] + [f"AIN{i}_Temp" ...]
headers ==
    <<"Timestamp">>
    \o [c \in 1..MUX_CHANNELS |-> "AIN" \o ToString(c - 1) \o "_Voltage"]
    \o [c \in 1..MUX_CHANNELS |-> "AIN" \o ToString(c - 1) \o "_Temp"]

\* [timestamp] + [round(v, 3) for v in voltages] + temperatures
row(ts, vs, ts3) ==
    <<ts>> \o [c \in 1..MUX_CHANNELS |-> Round3V(vs[c - 1])]
           \o [c \in 1..MUX_CHANNELS |-> ts3[c - 1]]

\* Mutant: the temperatures are left unrounded.
ConvertAll_unrounded(vs) == [c \in Channels |-> cheb_eq(vs[c])]

\* temperatures = [round(cheb_eq(v), 3) for v in voltages]
ConvertAll(vs) == [c \in Channels |-> Round3T(cheb_eq(vs[c]))]

\* Mutant: the refresh is due at the end of each block of cycles, not its start.
PlotsDue_late(n) == (n + 1) % PLOT_UPDATE_INTERVAL = 0

\* iteration_count % PLOT_UPDATE_INTERVAL == 0
PlotsDue(n) == n % PLOT_UPDATE_INTERVAL = 0

\* Positions inside the try block of the acquisition loop.
MuxTryPcs == {"try", "stamp", "read", "convert", "append_time", "append_voltage",
              "bars", "plots", "write", "flush", "pause", "sleep", "incr"}

\* Positions at which the figure or the slider callback reads the history.
MuxObservationPcs == {"bars", "plots", "write", "flush", "pause", "sleep", "incr",
                      "try", "stamp", "read", "convert"}

MuxViews0 ==
    [bars_voltage |-> [c \in Channels |-> 0],
     bars_temp    |-> [c \in Channels |-> 0],
     time_plot    |-> [x |-> <<>>, y |-> <<>>, channel |-> 0],
     mini_lines   |-> [c \in Channels |-> [x |-> <<>>, y |-> <<>>]],
     ax3_title    |-> 0,
     ax3_xlim     |-> INITIAL_TIME_WINDOW,
     ax4_xlim     |-> INITIAL_TIME_WINDOW]

InitMux ==
    /\ script = "Multiplexer"
    /\ pc = "isfile"
    /\ exc = "none"
    /\ handle = "open"
    /\ close_calls = 0
    /\ clock \in StartupDelays
    /\ \E old \in {NoFile,
                   OldFile(headers, row(0, [c \in Channels |-> VoltSeq[1]],
                                        ConvertAll([c \in Channels |-> VoltSeq[1]])))} :
          files = [n \in FileNames |-> IF n = CSV_FILENAME THEN old ELSE NoFile]
    /\ files0 = files
    /\ file_exists = FALSE
    /\ iteration_count = 0
    /\ timestamp = 0
    /\ voltages = [c \in Channels |-> 0]
    /\ temperatures = [c \in Channels |-> 0]
    /\ i = 0
    /\ time_history = <<>>
    /\ voltage_history = [c \in Channels |-> <<>>]
    /\ current_channel = 0
    /\ views = MuxViews0
    /\ device_log = <<>>
    /\ refresh_log = [cheap |-> <<>>, expensive |-> <<>>]
    /\ now = 0 /\ real_voltage = 0 /\ temp_kelvin = 0
    /\ time_data = <<>> /\ real_voltage_data = <<>>
    /\ ain1_data = <<>> /\ temp_data = <<>> /\ sample_log = <<>>
    /\ ain0_data = <<>> /\ diff_data = <<>> /\ pops = NoPops
    /\ Zv_arg = 0 /\ cheb_result = ChebIdle

\* Everything a step of Multiplexer.py leaves alone unless it says otherwise.
MuxFrame == UNCHANGED <<script, files0, tempVars, logVars, chebVars>>

\* start_time = time.time(); file_exists = os.path.isfile(CSV_FILENAME)
IsFile ==
    /\ script = "Multiplexer" /\ pc = "isfile"
    /\ file_exists' = files[CSV_FILENAME].present
    /\ pc' = "open"
    /\ UNCHANGED <<exc, handle, close_calls, clock, files, iteration_count,
                   timestamp, voltages, temperatures, i, time_history,
                   voltage_history, current_channel, views, device_log, refresh_log>>
    /\ MuxFrame

\* with open(CSV_FILENAME, mode='a', newline='') as csvfile
OpenCsv ==
    /\ script = "Multiplexer" /\ pc = "open"
    /\ files' = [files EXCEPT ![CSV_FILENAME] = OpenAppend(@)]
    /\ pc' = "header"
    /\ UNCHANGED <<exc, handle, close_calls, clock, file_exists, iteration_count,
                   timestamp, voltages, temperatures, i, time_history,
                   voltage_history, current_channel, views, device_log, refresh_log>>
    /\ MuxFrame

\* if not file_exists: writer.writerow(headers)
WriteHeader ==
    /\ script = "Multiplexer" /\ pc = "header"
    /\ files' = IF file_exists THEN files
                ELSE [files EXCEPT ![CSV_FILENAME] = WriteRow(@, HeaderLine(headers))]
    /\ pc' = "try"
    /\ UNCHANGED <<exc, handle, close_calls, clock, file_exists, iteration_count,
                   timestamp, voltages, temperatures, i, time_history,
                   voltage_history, current_channel, views, device_log, refresh_log>>
    /\ MuxFrame

\* try: iteration_count = 0
EnterTry ==
    /\ script = "Multiplexer" /\ pc = "try"
    /\ iteration_count' = 0
    /\ pc' = "stamp"
    /\ UNCHANGED <<exc, handle, close_calls, clock, files, file_exists,
                   timestamp, voltages, temperatures, i, time_history,
                   voltage_history, current_channel, views, device_log, refresh_log>>
    /\ MuxFrame

\* Mutant: the timestamp is appended to the history as soon as it is taken,
\* and again by the append step.
Stamp_appending ==
    /\ script = "Multiplexer" /\ pc = "stamp"
    /\ timestamp' = Round3V(clock)
    /\ time_history' = Append(time_history, Round3V(clock))
    /\ pc' = "read"
    /\ UNCHANGED <<exc, handle, close_calls, clock, files, file_exists,
                   iteration_count, voltages, temperatures, i,
                   voltage_history, current_channel, views, device_log, refresh_log>>
    /\ UNCHANGED <<script, files0, tempVars, logVars, chebVars>>

\* timestamp = round(time.time() - start_time, 3)
Stamp ==
    /\ script = "Multiplexer" /\ pc = "stamp"
    /\ timestamp' = Round3V(clock)
    /\ pc' = "read"
    /\ UNCHANGED <<exc, handle, close_calls, clock, files, file_exists,
                   iteration_count, voltages, temperatures, i, time_history,
                   voltage_history, current_channel, views, device_log, refresh_log>>
    /\ MuxFrame

\* voltages = ljm.eReadNames(handle, MUX_CHANNELS, ain_names), returning
Read ==
    /\ script = "Multiplexer" /\ pc = "read"
    /\ \E r \in DeviceReadings(Channels, iteration_count) :
          /\ voltages' = r
          /\ device_log' = Append(device_log, r)
    /\ pc' = "convert"
    /\ UNCHANGED <<exc, handle, close_calls, clock, files, file_exists,
                   iteration_count, timestamp, temperatures, i, time_history,
                   voltage_history, current_channel, views, refresh_log>>
    /\ MuxFrame

\* Mutant: no finally clause, an uncaught exception goes straight out of the
\* with block.
UncaughtTarget_nofinally == "with_exit"

\* Mutant: a failed cycle is swallowed and the loop starts the next one.
UncaughtTarget_retry == "stamp"

\* Where an exception that no except clause of the loop catches goes.
UncaughtTarget == "finally"

\* voltages = ljm.eReadNames(...), raising LJMError: nothing is assigned and
\* the exception leaves the loop for the finally clause.
ReadFail ==
    /\ script = "Multiplexer" /\ pc = "read"
    /\ exc' = "LJMError"
    /\ pc' = UncaughtTarget
    /\ UNCHANGED <<handle, close_calls, clock, files, file_exists,
                   iteration_count, timestamp, voltages, temperatures, i,
                   time_history, voltage_history, current_channel, views,
                   device_log, refresh_log>>
    /\ MuxFrame

\* temperatures = [round(cheb_eq(v), 3) for v in voltages]
Convert ==
    /\ script = "Multiplexer" /\ pc = "convert"
    /\ temperatures' = ConvertAll(voltages)
    /\ pc' = "append_time"
    /\ UNCHANGED <<exc, handle, close_calls, clock, files, file_exists,
                   iteration_count, timestamp, voltages, i, time_history,
                   voltage_history, current_channel, views, device_log, refresh_log>>
    /\ MuxFrame

\* time_history.append(timestamp)
AppendTime ==
    /\ script = "Multiplexer" /\ pc = "append_time"
    /\ time_history' = Append(time_history, timestamp)
    /\ i' = 0
    /\ pc' = "append_voltage"
    /\ UNCHANGED <<exc, handle, close_calls, clock, files, file_exists,
                   iteration_count, timestamp, voltages, temperatures,
                   voltage_history, current_channel, views, device_log, refresh_log>>
    /\ MuxFrame

\* Mutant: the append loop stops one channel short (range(MUX_CHANNELS - 1)).
AppendTargets_short(n) == {n} \ {MUX_CHANNELS - 1}

\* The channels one pass of the append loop's body stores into.
AppendTargets(n) == {n}

\* for i in range(MUX_CHANNELS): voltage_history[i].append(voltages[i])
AppendVoltage ==
    /\ script = "Multiplexer" /\ pc = "append_voltage"
    /\ voltage_history' = [c \in Channels |->
                             IF c \in AppendTargets(i)
                             THEN Append(voltage_history[c], voltages[c])
                             ELSE voltage_history[c]]
    /\ i' = i + 1
    /\ pc' = IF i + 1 < MUX_CHANNELS THEN "append_voltage" ELSE "bars"
    /\ UNCHANGED <<exc, handle, close_calls, clock, files, file_exists,
                   iteration_count, timestamp, voltages, temperatures,
                   time_history, current_channel, views, device_log, refresh_log>>
    /\ MuxFrame

\* for bar, voltage in zip(bars_voltage, voltages): bar.set_height(voltage)
\* for bar, temp in zip(bars_temp, temperatures): bar.set_height(temp)
UpdateBars ==
    /\ script = "Multiplexer" /\ pc = "bars"
    /\ views' = [views EXCEPT !.bars_voltage = voltages, !.bars_temp = temperatures]
    /\ refresh_log' = [refresh_log EXCEPT !.cheap = Append(@, iteration_count)]
    /\ pc' = "plots"
    /\ UNCHANGED <<exc, handle, close_calls, clock, files, file_exists,
                   iteration_count, timestamp, voltages, temperatures, i,
                   time_history, voltage_history, current_channel, device_log>>
    /\ MuxFrame

\* The body of `if iteration_count % PLOT_UPDATE_INTERVAL == 0`: the selected
\* channel's line, the overview lines (each offset by its channel number, in
\* volts) and both x axes.
RefreshedViews ==
    [views EXCEPT
       !.time_plot  = [x |-> time_history, y |-> voltage_history[current_channel],
                       channel |-> current_channel],
       !.ax3_xlim   = IF time_history # <<>>
                      THEN Max(INITIAL_TIME_WINDOW, Last(time_history)) ELSE @,
       !.mini_lines = [c \in Channels |->
                         [x |-> time_history,
                          y |-> [n \in 1..Len(voltage_history[c]) |->
                                   voltage_history[c][n] + c * 10000]]],
       !.ax4_xlim   = IF time_history # <<>>
                      THEN Max(INITIAL_TIME_WINDOW, Last(time_history)) ELSE @]

\* if iteration_count % PLOT_UPDATE_INTERVAL == 0: update the line plots
UpdatePlots ==
    /\ script = "Multiplexer" /\ pc = "plots"
    /\ IF PlotsDue(iteration_count)
       THEN /\ views' = RefreshedViews
            /\ refresh_log' = [refresh_log EXCEPT !.expensive = Append(@, iteration_count)]
       ELSE UNCHANGED <<views, refresh_log>>
    /\ pc' = "write"
    /\ UNCHANGED <<exc, handle, close_calls, clock, files, file_exists,
                   iteration_count, timestamp, voltages, temperatures, i,
                   time_history, voltage_history, current_channel, device_log>>
    /\ MuxFrame

\* row = [timestamp] + [round(v, 3) for v in voltages] + temperatures
\* writer.writerow(row)
WriteCsvRow ==
    /\ script = "Multiplexer" /\ pc = "write"
    /\ files' = [files EXCEPT ![CSV_FILENAME] =
                    WriteRow(@, RowLine(row(timestamp, voltages, temperatures)))]
    /\ pc' = "flush"
    /\ UNCHANGED <<exc, handle, close_calls, clock, file_exists,
                   iteration_count, timestamp, voltages, temperatures, i,
                   time_history, voltage_history, current_channel, views,
                   device_log, refresh_log>>
    /\ MuxFrame

\* writer.writerow(row) raising OSError before anything is written
WriteFail ==
    /\ script = "Multiplexer" /\ pc = "write"
    /\ exc' = "OSError"
    /\ pc' = UncaughtTarget
    /\ UNCHANGED <<handle, close_calls, clock, files, file_exists,
                   iteration_count, timestamp, voltages, temperatures, i,
                   time_history, voltage_history, current_channel, views,
                   device_log, refresh_log>>
    /\ MuxFrame

\* What the stream holds after the statement that follows writer.writerow(row).
AfterRow(f) == FlushFile(f)

\* csvfile.flush()
Flush ==
    /\ script = "Multiplexer" /\ pc = "flush"
    /\ files' = [files EXCEPT ![CSV_FILENAME] = AfterRow(@)]
    /\ pc' = "pause"
    /\ UNCHANGED <<exc, handle, close_calls, clock, file_exists,
                   iteration_count, timestamp, voltages, temperatures, i,
                   time_history, voltage_history, current_channel, views,
                   device_log, refresh_log>>
    /\ MuxFrame

\* update_channel(val): the slider's callback, run by the GUI event loop,
\* which this script enters only inside plt.pause.
update_channel(val) ==
    /\ script = "Multiplexer" /\ pc = "pause"
    /\ current_channel' = val
    /\ views' = [views EXCEPT
                   !.ax3_title = val,
                   !.ax3_xlim  = IF time_history # <<>>
                                 THEN Max(INITIAL_TIME_WINDOW, Last(time_history))
                                 ELSE @]
    /\ UNCHANGED <<pc, exc, handle, close_calls, clock, files, file_exists,
                   iteration_count, timestamp, voltages, temperatures, i,
                   time_history, voltage_history, device_log, refresh_log>>
    /\ MuxFrame

\* The slider moved to another channel: valmin=0, valmax=MUX_CHANNELS-1, valstep=1.
SliderChanged == \E val \in Channels : val # current_channel /\ update_channel(val)

\* plt.pause(0.01) returning
Pause ==
    /\ script = "Multiplexer" /\ pc = "pause"
    /\ clock' = clock + PAUSE
    /\ pc' = "sleep"
    /\ UNCHANGED <<exc, handle, close_calls, files, file_exists,
                   iteration_count, timestamp, voltages, temperatures, i,
                   time_history, voltage_history, current_channel, views,
                   device_log, refresh_log>>
    /\ MuxFrame

\* time.sleep(SAMPLING_INTERVAL)
Sleep ==
    /\ script = "Multiplexer" /\ pc = "sleep"
    /\ clock' = clock + SAMPLING_INTERVAL
    /\ pc' = "incr"
    /\ UNCHANGED <<exc, handle, close_calls, files, file_exists,
                   iteration_count, timestamp, voltages, temperatures, i,
                   time_history, voltage_history, current_channel, views,
                   device_log, refresh_log>>
    /\ MuxFrame

\* iteration_count += 1, and back to the top of `while True`
Incr ==
    /\ script = "Multiplexer" /\ pc = "incr"
    /\ iteration_count + 1 < MaxCycles
    /\ iteration_count' = iteration_count + 1
    /\ pc' = "stamp"
    /\ UNCHANGED <<exc, handle, close_calls, clock, files, file_exists,
                   timestamp, voltages, temperatures, i, time_history,
                   voltage_history, current_channel, views, device_log, refresh_log>>
    /\ MuxFrame

\* Ctrl-C: KeyboardInterrupt is raised in the main thread between two bytecode
\* instructions, wherever inside the try block the thread is.
Interrupt ==
    /\ script = "Multiplexer" /\ pc \in MuxTryPcs
    /\ exc' = "KeyboardInterrupt"
    /\ pc' = "except"
    /\ UNCHANGED <<handle, close_calls, clock, files, file_exists,
                   iteration_count, timestamp, voltages, temperatures, i,
                   time_history, voltage_history, current_channel, views,
                   device_log, refresh_log>>
    /\ MuxFrame

\* except KeyboardInterrupt: print("\nMonitoring stopped by user.")
Except ==
    /\ script = "Multiplexer" /\ pc = "except"
    /\ exc' = "none"
    /\ pc' = "finally"
    /\ UNCHANGED <<handle, close_calls, clock, files, file_exists,
                   iteration_count, timestamp, voltages, temperatures, i,
                   time_history, voltage_history, current_channel, views,
                   device_log, refresh_log>>
    /\ MuxFrame

\* ljm.close(handle)
CloseHandle == /\ handle' = "closed"
               /\ close_calls' = close_calls + 1

\* finally: ljm.close(handle); print(...)
Finally ==
    /\ script = "Multiplexer" /\ pc = "finally"
    /\ CloseHandle
    /\ pc' = "with_exit"
    /\ UNCHANGED <<exc, clock, files, file_exists,
                   iteration_count, timestamp, voltages, temperatures, i,
                   time_history, voltage_history, current_channel, views,
                   device_log, refresh_log>>
    /\ MuxFrame

\* Leaving `with open(...) as csvfile`: the file is closed, whether or not an
\* exception is passing through.
WithExit ==
    /\ script = "Multiplexer" /\ pc = "with_exit"
    /\ files' = [files EXCEPT ![CSV_FILENAME] = CloseFile(@)]
    /\ pc' = "done"
    /\ UNCHANGED <<exc, handle, close_calls, clock, file_exists,
                   iteration_count, timestamp, voltages, temperatures, i,
                   time_history, voltage_history, current_channel, views,
                   device_log, refresh_log>>
    /\ MuxFrame

NextMux ==
    \/ IsFile \/ OpenCsv \/ WriteHeader \/ EnterTry
    \/ Stamp \/ Read \/ ReadFail \/ Convert \/ AppendTime \/ AppendVoltage
    \/ UpdateBars \/ UpdatePlots \/ WriteCsvRow \/ WriteFail \/ Flush
    \/ SliderChanged \/ Pause \/ Sleep \/ Incr
    \/ Interrupt \/ Except \/ Finally \/ WithExit

SpecMux == InitMux /\ [][NextMux]_vars

-----------------------------------------------------------------------------
(* lj_temp.py *)

\* ljm.eReadNames(handle, 2, ["AIN0", "AIN1"])
TempChannels == 0..1

RECURSIVE SeqSum(_)
SeqSum(s) == IF s = <<>> THEN 0 ELSE s[1] + SeqSum(Tail(s))

SeqMax(s) == CHOOSE m \in {s[n] : n \in 1..Len(s)} : \A n \in 1..Len(s) : s[n] <= m

SeqMin(s) == CHOOSE m \in {s[n] : n \in 1..Len(s)} : \A n \in 1..Len(s) : m <= s[n]

HasNaN(s) == \E n \in 1..Len(s) : s[n] = NaN

\* if len(time_data) > 1000
TrimDue(s) == Len(s) > KEEP_POINTS

\* Mutant: the slice keeps the oldest points (buffer[:1000]).
Trimmed_oldest(s) == IF Len(s) <= KEEP_POINTS THEN s ELSE SubSeq(s, 1, KEEP_POINTS)

\* buffer[-1000:]
Trimmed(s) == LastN(s, KEEP_POINTS)

\* avg - margin, avg + margin with margin = max(least, 0.1 * (max - min))
Limits(s, least) ==
    IF HasNaN(s) THEN <<NaN, NaN>>
    ELSE LET avg    == SeqSum(s) \div Len(s)
             margin == Max(least, (SeqMax(s) - SeqMin(s)) \div 10)
         IN  <<avg - margin, avg + margin>>

TempViews0 ==
    [line_voltage |-> [x |-> <<>>, y |-> <<>>],
     line_ain1    |-> [x |-> <<>>, y |-> <<>>],
     line_temp    |-> [x |-> <<>>, y |-> <<>>],
     ax1_ylim     |-> <<0, 0>>,
     ax2_ylim     |-> <<0, 0>>,
     xlim         |-> <<0, 0>>]

\* Positions inside the try block of lj_temp.py.
TempTryPcs == {"t_read", "t_compute", "t_append", "t_write_v", "t_write_t",
               "t_trim_check", "t_trim", "t_plot", "t_pause", "t_sleep"}

\* Positions at which a whole cycle's append and trim are behind the thread.
TempObservationPcs == {"t_plot", "t_pause", "t_sleep", "t_read", "t_compute"}

TempVoltageHeader == <<"Time (s)", "Real Voltage (V)", "AIN1 (V)">>

TempTempHeader == <<"Time (s)", "Temperature (K)">>

InitTemp ==
    /\ script = "lj_temp"
    /\ pc = "t_open"
    /\ exc = "none"
    /\ handle = "open"
    /\ close_calls = 0
    /\ clock \in StartupDelays
    /\ \E old \in BOOLEAN :
          files = [n \in FileNames |->
                     IF ~old \/ n = CSV_FILENAME THEN NoFile
                     ELSE IF n = CSV_VOLTAGE_FILE
                          THEN OldFile(TempVoltageHeader, <<0, VoltSeq[2], VoltSeq[2]>>)
                          ELSE OldFile(TempTempHeader, <<0, lj_temp_cheb_eq(VoltSeq[2])>>)]
    /\ files0 = files
    /\ file_exists = FALSE
    /\ iteration_count = 0
    /\ timestamp = 0
    /\ voltages = [c \in TempChannels |-> 0]
    /\ temperatures = [c \in Channels |-> 0]
    /\ i = 0
    /\ time_history = <<>>
    /\ voltage_history = [c \in Channels |-> <<>>]
    /\ current_channel = 0
    /\ views = TempViews0
    /\ device_log = <<>>
    /\ refresh_log = [cheap |-> <<>>, expensive |-> <<>>]
    /\ now = 0 /\ real_voltage = 0 /\ temp_kelvin = 0
    /\ time_data = <<>> /\ real_voltage_data = <<>>
    /\ ain1_data = <<>> /\ temp_data = <<>> /\ sample_log = <<>>
    /\ ain0_data = <<>> /\ diff_data = <<>> /\ pops = NoPops
    /\ Zv_arg = 0 /\ cheb_result = ChebIdle

\* Everything a step of lj_temp.py leaves alone unless it says otherwise.
TempFrame ==
    UNCHANGED <<script, files0, file_exists, timestamp, temperatures,
                time_history, voltage_history, current_channel, refresh_log,
                logVars, chebVars>>

\* voltage_csv = open(CSV_VOLTAGE_FILE, mode='w', newline='')
\* temp_csv = open(CSV_TEMP_FILE, mode='w', newline='')
OpenTempFiles ==
    /\ script = "lj_temp" /\ pc = "t_open"
    /\ files' = [files EXCEPT ![CSV_VOLTAGE_FILE] = OpenWrite(@),
                              ![CSV_TEMP_FILE] = OpenWrite(@)]
    /\ pc' = "t_header"
    /\ UNCHANGED <<exc, handle, close_calls, clock, iteration_count, voltages, i,
                   views, device_log, tempVars>>
    /\ TempFrame

\* voltage_writer.writerow([...]); temp_writer.writerow([...])
WriteTempHeaders ==
    /\ script = "lj_temp" /\ pc = "t_header"
    /\ files' = [files EXCEPT
                   ![CSV_VOLTAGE_FILE] = WriteRow(@, HeaderLine(TempVoltageHeader)),
                   ![CSV_TEMP_FILE] = WriteRow(@, HeaderLine(TempTempHeader))]
    /\ pc' = "t_read"
    /\ UNCHANGED <<exc, handle, close_calls, clock, iteration_count, voltages, i,
                   views, device_log, tempVars>>
    /\ TempFrame

\* ain0, ain1 = ljm.eReadNames(handle, 2, ["AIN0", "AIN1"]); now = time.time() - start_time
TempRead ==
    /\ script = "lj_temp" /\ pc = "t_read"
    /\ \E r \in DeviceReadings(TempChannels, iteration_count) :
          /\ voltages' = r
          /\ device_log' = Append(device_log, r)
    /\ now' = clock
    /\ pc' = "t_compute"
    /\ UNCHANGED <<exc, handle, close_calls, clock, files, iteration_count, i, views,
                   real_voltage, temp_kelvin, time_data, real_voltage_data,
                   ain1_data, temp_data, sample_log>>
    /\ TempFrame

\* ljm.eReadNames raising LJMError: only KeyboardInterrupt has an except clause
TempReadFail ==
    /\ script = "lj_temp" /\ pc = "t_read"
    /\ exc' = "LJMError"
    /\ pc' = "t_finally"
    /\ UNCHANGED <<handle, close_calls, clock, files, iteration_count, voltages, i,
                   views, device_log, tempVars>>
    /\ TempFrame

\* real_voltage = ain1 - ain0
\* try: temp_kelvin = cheb_eq(real_voltage) / except Exception: temp_kelvin = np.nan
\* (cheb_eq raises nothing, so the except branch is never taken)
TempCompute ==
    /\ script = "lj_temp" /\ pc = "t_compute"
    /\ real_voltage' = voltages[1] - voltages[0]
    /\ temp_kelvin' = lj_temp_cheb_eq(voltages[1] - voltages[0])
    /\ i' = 0
    /\ pc' = "t_append"
    /\ UNCHANGED <<exc, handle, close_calls, clock, files, iteration_count, voltages,
                   views, device_log, now, time_data, real_voltage_data,
                   ain1_data, temp_data, sample_log>>
    /\ TempFrame

\* time_data.append(now); real_voltage_data.append(real_voltage);
\* ain1_data.append(ain1); temp_data.append(temp_kelvin): one statement a step
TempAppend ==
    /\ script = "lj_temp" /\ pc = "t_append"
    /\ time_data' = IF i = 0 THEN Append(time_data, now) ELSE time_data
    /\ real_voltage_data' = IF i = 1 THEN Append(real_voltage_data, real_voltage)
                            ELSE real_voltage_data
    /\ ain1_data' = IF i = 2 THEN Append(ain1_data, voltages[1]) ELSE ain1_data
    /\ temp_data' = IF i = 3 THEN Append(temp_data, temp_kelvin) ELSE temp_data
    /\ sample_log' = IF i = 0
                     THEN Append(sample_log, [time |-> now, real_voltage |-> real_voltage,
                                              ain1 |-> voltages[1], temp |-> temp_kelvin])
                     ELSE sample_log
    /\ i' = i + 1
    /\ pc' = IF i < 3 THEN "t_append" ELSE "t_write_v"
    /\ UNCHANGED <<exc, handle, close_calls, clock, files, iteration_count, voltages,
                   views, device_log, now, real_voltage, temp_kelvin>>
    /\ TempFrame

\* voltage_writer.writerow([now, real_voltage, ain1])
TempWriteVoltage ==
    /\ script = "lj_temp" /\ pc = "t_write_v"
    /\ files' = [files EXCEPT ![CSV_VOLTAGE_FILE] =
                    WriteRow(@, RowLine(<<now, real_voltage, voltages[1]>>))]
    /\ pc' = "t_write_t"
    /\ UNCHANGED <<exc, handle, close_calls, clock, iteration_count, voltages, i,
                   views, device_log, tempVars>>
    /\ TempFrame

\* temp_writer.writerow([now, temp_kelvin])
TempWriteTemp ==
    /\ script = "lj_temp" /\ pc = "t_write_t"
    /\ files' = [files EXCEPT ![CSV_TEMP_FILE] =
                    WriteRow(@, RowLine(<<now, temp_kelvin>>))]
    /\ pc' = "t_trim_check"
    /\ UNCHANGED <<exc, handle, close_calls, clock, iteration_count, voltages, i,
                   views, device_log, tempVars>>
    /\ TempFrame

\* if len(time_data) > 1000:
TempTrimCheck ==
    /\ script = "lj_temp" /\ pc = "t_trim_check"
    /\ i' = 0
    /\ pc' = IF TrimDue(time_data) THEN "t_trim" ELSE "t_plot"
    /\ UNCHANGED <<exc, handle, close_calls, clock, files, iteration_count, voltages,
                   views, device_log, tempVars>>
    /\ TempFrame

\* time_data = time_data[-1000:]; real_voltage_data = real_voltage_data[-1000:];
\* ain1_data = ain1_data[-1000:]; temp_data = temp_data[-1000:]: one statement a step
TempTrim ==
    /\ script = "lj_temp" /\ pc = "t_trim"
    /\ time_data' = IF i = 0 THEN Trimmed(time_data) ELSE time_data
    /\ real_voltage_data' = IF i = 1 THEN Trimmed(real_voltage_data)
                            ELSE real_voltage_data
    /\ ain1_data' = IF i = 2 THEN Trimmed(ain1_data) ELSE ain1_data
    /\ temp_data' = IF i = 3 THEN Trimmed(temp_data) ELSE temp_data
    /\ i' = i + 1
    /\ pc' = IF i < 3 THEN "t_trim" ELSE "t_plot"
    /\ UNCHANGED <<exc, handle, close_calls, clock, files, iteration_count, voltages,
                   views, device_log, now, real_voltage, temp_kelvin, sample_log>>
    /\ TempFrame

\* line_*.set_data(...); ax1.set_ylim(...); ax2.set_ylim(...); ax*.set_xlim(...)
TempPlot ==
    /\ script = "lj_temp" /\ pc = "t_plot"
    /\ views' = [line_voltage |-> [x |-> time_data, y |-> real_voltage_data],
                 line_ain1    |-> [x |-> time_data, y |-> ain1_data],
                 line_temp    |-> [x |-> time_data, y |-> temp_data],
                 ax1_ylim     |-> Limits(real_voltage_data, 1000),
                 ax2_ylim     |-> Limits(temp_data, 10 ^ 6),
                 xlim         |-> <<SeqMin(time_data), SeqMax(time_data)>>]
    /\ pc' = "t_pause"
    /\ UNCHANGED <<exc, handle, close_calls, clock, files, iteration_count, voltages,
                   i, device_log, tempVars>>
    /\ TempFrame

\* ax2.set_ylim(nan, nan): matplotlib versions that validate axis limits raise
\* ValueError here, after the three set_data calls; older ones accept it.
TempPlotFail ==
    /\ script = "lj_temp" /\ pc = "t_plot"
    /\ HasNaN(temp_data)
    /\ views' = [views EXCEPT
                   !.line_voltage = [x |-> time_data, y |-> real_voltage_data],
                   !.line_ain1    = [x |-> time_data, y |-> ain1_data],
                   !.line_temp    = [x |-> time_data, y |-> temp_data],
                   !.ax1_ylim     = Limits(real_voltage_data, 1000)]
    /\ exc' = "ValueError"
    /\ pc' = "t_finally"
    /\ UNCHANGED <<handle, close_calls, clock, files, iteration_count, voltages,
                   i, device_log, tempVars>>
    /\ TempFrame

\* plt.pause(0.01)
TempPause ==
    /\ script = "lj_temp" /\ pc = "t_pause"
    /\ clock' = clock + PAUSE
    /\ pc' = "t_sleep"
    /\ UNCHANGED <<exc, handle, close_calls, files, iteration_count, voltages, i,
                   views, device_log, tempVars>>
    /\ TempFrame

\* time.sleep(SAMPLING_INTERVAL), and back to the top of `while True`
TempSleep ==
    /\ script = "lj_temp" /\ pc = "t_sleep"
    /\ iteration_count + 1 < MaxTempCycles
    /\ clock' = clock + SAMPLING_INTERVAL_temp
    /\ iteration_count' = iteration_count + 1
    /\ pc' = "t_read"
    /\ UNCHANGED <<exc, handle, close_calls, files, voltages, i,
                   views, device_log, tempVars>>
    /\ TempFrame

\* Ctrl-C anywhere inside the try block
TempInterrupt ==
    /\ script = "lj_temp" /\ pc \in TempTryPcs
    /\ exc' = "KeyboardInterrupt"
    /\ pc' = "t_except"
    /\ UNCHANGED <<handle, close_calls, clock, files, iteration_count, voltages, i,
                   views, device_log, tempVars>>
    /\ TempFrame

\* except KeyboardInterrupt: print("\nStopped by user.")
TempExcept ==
    /\ script = "lj_temp" /\ pc = "t_except"
    /\ exc' = "none"
    /\ pc' = "t_finally"
    /\ UNCHANGED <<handle, close_calls, clock, files, iteration_count, voltages, i,
                   views, device_log, tempVars>>
    /\ TempFrame

\* finally: ljm.close(handle); voltage_csv.close(); temp_csv.close(); ...
TempFinally ==
    /\ script = "lj_temp" /\ pc = "t_finally"
    /\ CloseHandle
    /\ files' = [files EXCEPT ![CSV_VOLTAGE_FILE] = CloseFile(@),
                              ![CSV_TEMP_FILE] = CloseFile(@)]
    /\ pc' = "done"
    /\ UNCHANGED <<exc, clock, iteration_count, voltages, i,
                   views, device_log, tempVars>>
    /\ TempFrame

NextTemp ==
    \/ OpenTempFiles \/ WriteTempHeaders
    \/ TempRead \/ TempReadFail \/ TempCompute \/ TempAppend
    \/ TempWriteVoltage \/ TempWriteTemp \/ TempTrimCheck \/ TempTrim
    \/ TempPlot \/ TempPlotFail \/ TempPause \/ TempSleep
    \/ TempInterrupt \/ TempExcept \/ TempFinally

SpecTemp == InitTemp /\ [][NextTemp]_vars

-----------------------------------------------------------------------------
(* cheb_eq called on its own, as temp_function.py does with 2.8625 *)

ChebInputs == ChebGrid \cup Volts \cup {LowerBoundary, UpperBoundary}

InitCheb ==
    /\ script = "cheb_eq"
    /\ pc = "call"
    /\ exc = "none"
    /\ handle = "closed"
    /\ close_calls = 0
    /\ clock = 0
    /\ files = [n \in FileNames |-> NoFile]
    /\ files0 = files
    /\ file_exists = FALSE
    /\ iteration_count = 0
    /\ timestamp = 0
    /\ voltages = [c \in Channels |-> 0]
    /\ temperatures = [c \in Channels |-> 0]
    /\ i = 0
    /\ time_history = <<>>
    /\ voltage_history = [c \in Channels |-> <<>>]
    /\ current_channel = 0
    /\ views = MuxViews0
    /\ device_log = <<>>
    /\ refresh_log = [cheap |-> <<>>, expensive |-> <<>>]
    /\ now = 0 /\ real_voltage = 0 /\ temp_kelvin = 0
    /\ time_data = <<>> /\ real_voltage_data = <<>>
    /\ ain1_data = <<>> /\ temp_data = <<>> /\ sample_log = <<>>
    /\ ain0_data = <<>> /\ diff_data = <<>> /\ pops = NoPops
    /\ Zv_arg \in ChebInputs
    /\ cheb_result = ChebIdle

ChebFrame ==
    UNCHANGED <<script, pc, exc, handle, close_calls, clock, files, files0,
                file_exists, iteration_count, timestamp, voltages, temperatures,
                i, time_history, voltage_history, current_channel, views,
                device_log, refresh_log, tempVars, logVars, Zv_arg>>

\* Multiplexer.py, multiplex2.py: cheb_eq(Zv)
CallChebMux ==
    /\ script = "cheb_eq" /\ cheb_result.mux = "pending"
    /\ cheb_result' = [cheb_result EXCEPT !.mux = "returned", !.T_mux = cheb_eq(Zv_arg)]
    /\ ChebFrame

\* lj_temp.py, temp_function.py: cheb_eq(Zv)
CallChebTemp ==
    /\ script = "cheb_eq" /\ cheb_result.lj_temp = "pending"
    /\ cheb_result' = [cheb_result EXCEPT !.lj_temp = "returned",
                                          !.T_lj_temp = lj_temp_cheb_eq(Zv_arg)]
    /\ ChebFrame

NextCheb == CallChebMux \/ CallChebTemp

SpecCheb == InitCheb /\ [][NextCheb]_vars

-----------------------------------------------------------------------------
(* The scripts that log to CSV files, and the conversion *)

Init == InitMux \/ InitTemp \/ InitCheb

Next == NextMux \/ NextTemp \/ NextCheb

Spec == Init /\ [][Next]_vars

-----------------------------------------------------------------------------
(* lj_log.py *)

\* abs(x)
Abs(x) == IF x < 0 THEN 0 - x ELSE x

\* What ljm.eReadNames may return to lj_log.py in cycle n.
LogReadings(n) ==
    IF n \in FreeCycles
    THEN [TempChannels -> {LogVoltSeq[m] : m \in 1..Len(LogVoltSeq)}]
    ELSE {[c \in TempChannels |-> LogVoltSeq[((n + c) % Len(LogVoltSeq)) + 1]]}

\* The sample a cycle appends: now, abs(ain0), abs(ain1), abs(ain0 - ain1).
LogSample(t, v) ==
    [time_data |-> t, ain0_data |-> Abs(v[0]), ain1_data |-> Abs(v[1]),
     diff_data |-> Abs(v[0] - v[1])]

\* (now - time_data[0]) > PLOT_WINDOW
TooOld(t0) == now - t0 > PLOT_WINDOW

\* Mutant: list.pop() without an index, which removes the newest element.
PopFirst_newest(s) == SubSeq(s, 1, Len(s) - 1)

\* list.pop(0)
PopFirst(s) == Tail(s)

\* The three lines start empty; matplotlib's default x axis is (0.0, 1.0).
LogViews0 ==
    [line1 |-> [x |-> <<>>, y |-> <<>>],
     line2 |-> [x |-> <<>>, y |-> <<>>],
     line3 |-> [x |-> <<>>, y |-> <<>>],
     xlim  |-> <<0, 10000>>]

\* Positions inside the try block.
LogTryPcs == {"l_read", "l_append", "l_trim_check", "l_pop", "l_plot",
              "l_pause", "l_sleep"}

\* Positions of a cycle after its trim loop has ended.
LogTrimmedPcs == {"l_plot", "l_pause", "l_sleep"}

InitLog ==
    /\ script = "lj_log"
    /\ pc = "l_read"
    /\ exc = "none"
    /\ handle = "open"
    /\ close_calls = 0
    /\ clock \in StartupDelays
    /\ files = [n \in FileNames |-> NoFile]
    /\ files0 = files
    /\ file_exists = FALSE
    /\ iteration_count = 0
    /\ timestamp = 0
    /\ voltages = [c \in TempChannels |-> 0]
    /\ temperatures = [c \in Channels |-> 0]
    /\ i = 0
    /\ time_history = <<>>
    /\ voltage_history = [c \in Channels |-> <<>>]
    /\ current_channel = 0
    /\ views = LogViews0
    /\ device_log = <<>>
    /\ refresh_log = [cheap |-> <<>>, expensive |-> <<>>]
    /\ now = 0 /\ real_voltage = 0 /\ temp_kelvin = 0
    /\ time_data = <<>> /\ real_voltage_data = <<>>
    /\ ain1_data = <<>> /\ temp_data = <<>> /\ sample_log = <<>>
    /\ ain0_data = <<>> /\ diff_data = <<>> /\ pops = NoPops
    /\ Zv_arg = 0 /\ cheb_result = ChebIdle

\* Everything a step of lj_log.py leaves alone unless it says otherwise: the
\* script writes no file and converts nothing.
LogFrame ==
    UNCHANGED <<script, files, files0, file_exists, timestamp, temperatures,
                time_history, voltage_history, current_channel, refresh_log,
                real_voltage, temp_kelvin, real_voltage_data, temp_data,
                chebVars>>

\* ain0, ain1 = ljm.eReadNames(handle, 2, ["AIN0", "AIN1"]); now = time.time() - start_time
LogRead ==
    /\ script = "lj_log" /\ pc = "l_read"
    /\ \E r \in LogReadings(iteration_count) :
          /\ voltages' = r
          /\ device_log' = Append(device_log, r)
    /\ now' = clock
    /\ i' = 0
    /\ pc' = "l_append"
    /\ UNCHANGED <<exc, handle, close_calls, clock, iteration_count, views,
                   time_data, ain0_data, ain1_data, diff_data, sample_log, pops>>
    /\ LogFrame

\* ljm.eReadNames raising LJMError: only KeyboardInterrupt has an except clause
LogReadFail ==
    /\ script = "lj_log" /\ pc = "l_read"
    /\ exc' = "LJMError"
    /\ pc' = "l_finally"
    /\ UNCHANGED <<handle, close_calls, clock, iteration_count, voltages, i, views,
                   device_log, now, time_data, ain0_data, ain1_data, diff_data,
                   sample_log, pops>>
    /\ LogFrame

\* time_data.append(now); ain0_data.append(abs(ain0));
\* ain1_data.append(abs(ain1)); diff_data.append(abs(ain0 - ain1)): one
\* statement a step
LogAppend ==
    /\ script = "lj_log" /\ pc = "l_append"
    /\ LET smp == LogSample(now, voltages) IN
          /\ time_data' = IF i = 0 THEN Append(time_data, smp.time_data) ELSE time_data
          /\ ain0_data' = IF i = 1 THEN Append(ain0_data, smp.ain0_data) ELSE ain0_data
          /\ ain1_data' = IF i = 2 THEN Append(ain1_data, smp.ain1_data) ELSE ain1_data
          /\ diff_data' = IF i = 3 THEN Append(diff_data, smp.diff_data) ELSE diff_data
          /\ sample_log' = IF i = 0 THEN Append(sample_log, smp) ELSE sample_log
    /\ IF i < 3 THEN i' = i + 1 /\ pc' = pc
       ELSE i' = 0 /\ pc' = "l_trim_check"
    /\ UNCHANGED <<exc, handle, close_calls, clock, iteration_count, voltages,
                   views, device_log, now, pops>>
    /\ LogFrame

\* while time_data and (now - time_data[0]) > PLOT_WINDOW
LogTrimCheck ==
    /\ script = "lj_log" /\ pc = "l_trim_check"
    /\ pc' = IF time_data # <<>> /\ TooOld(time_data[1]) THEN "l_pop" ELSE "l_plot"
    /\ i' = 0
    /\ UNCHANGED <<exc, handle, close_calls, clock, iteration_count, voltages,
                   views, device_log, now, time_data, ain0_data, ain1_data,
                   diff_data, sample_log, pops>>
    /\ LogFrame

\* time_data.pop(0); ain0_data.pop(0); ain1_data.pop(0); diff_data.pop(0): one
\* statement a step, then back to the loop's condition
LogPop ==
    /\ script = "lj_log" /\ pc = "l_pop"
    /\ time_data' = IF i = 0 THEN PopFirst(time_data) ELSE time_data
    /\ ain0_data' = IF i = 1 THEN PopFirst(ain0_data) ELSE ain0_data
    /\ ain1_data' = IF i = 2 THEN PopFirst(ain1_data) ELSE ain1_data
    /\ diff_data' = IF i = 3 THEN PopFirst(diff_data) ELSE diff_data
    /\ pops' = CASE i = 0 -> [pops EXCEPT !.time_data = @ + 1]
                 [] i = 1 -> [pops EXCEPT !.ain0_data = @ + 1]
                 [] i = 2 -> [pops EXCEPT !.ain1_data = @ + 1]
                 [] i = 3 -> [pops EXCEPT !.diff_data = @ + 1]
    /\ IF i < 3 THEN i' = i + 1 /\ pc' = pc
       ELSE i' = 0 /\ pc' = "l_trim_check"
    /\ UNCHANGED <<exc, handle, close_calls, clock, iteration_count, voltages,
                   views, device_log, now, sample_log>>
    /\ LogFrame

\* line1.set_data(time_data, ain0_data); line2.set_data(time_data, ain1_data);
\* line3.set_data(time_data, diff_data); ax.set_xlim(max(0, now - PLOT_WINDOW), now)
LogPlot ==
    /\ script = "lj_log" /\ pc = "l_plot"
    /\ views' = [line1 |-> [x |-> time_data, y |-> ain0_data],
                 line2 |-> [x |-> time_data, y |-> ain1_data],
                 line3 |-> [x |-> time_data, y |-> diff_data],
                 xlim  |-> <<Max(0, now - PLOT_WINDOW), now>>]
    /\ pc' = "l_pause"
    /\ UNCHANGED <<exc, handle, close_calls, clock, iteration_count, voltages, i,
                   device_log, now, time_data, ain0_data, ain1_data, diff_data,
                   sample_log, pops>>
    /\ LogFrame

\* plt.pause(0.01)
LogPause ==
    /\ script = "lj_log" /\ pc = "l_pause"
    /\ clock' = clock + PAUSE
    /\ pc' = "l_sleep"
    /\ UNCHANGED <<exc, handle, close_calls, iteration_count, voltages, i, views,
                   device_log, now, time_data, ain0_data, ain1_data, diff_data,
                   sample_log, pops>>
    /\ LogFrame

\* time.sleep(SAMPLING_INTERVAL), and back to the top of `while True`;
\* time.time() is the wall clock, which by the next read may have been set
\* back or have run on while the process was held up
LogSleep ==
    /\ script = "lj_log" /\ pc = "l_sleep"
    /\ iteration_count + 1 < MaxLogCycles
    /\ \E j \in ClockJumps : clock' = clock + SAMPLING_INTERVAL_log + j
    /\ iteration_count' = iteration_count + 1
    /\ pc' = "l_read"
    /\ UNCHANGED <<exc, handle, close_calls, voltages, i, views, device_log, now,
                   time_data, ain0_data, ain1_data, diff_data, sample_log, pops>>
    /\ LogFrame

\* Ctrl-C anywhere inside the try block
LogInterrupt ==
    /\ script = "lj_log" /\ pc \in LogTryPcs
    /\ exc' = "KeyboardInterrupt"
    /\ pc' = "l_except"
    /\ UNCHANGED <<handle, close_calls, clock, iteration_count, voltages, i, views,
                   device_log, now, time_data, ain0_data, ain1_data, diff_data,
                   sample_log, pops>>
    /\ LogFrame

\* except KeyboardInterrupt: print("\nStopped by user.")
LogExcept ==
    /\ script = "lj_log" /\ pc = "l_except"
    /\ exc' = "none"
    /\ pc' = "l_finally"
    /\ UNCHANGED <<handle, close_calls, clock, iteration_count, voltages, i, views,
                   device_log, now, time_data, ain0_data, ain1_data, diff_data,
                   sample_log, pops>>
    /\ LogFrame

\* finally: ljm.close(handle); plt.ioff(); plt.show()
LogFinally ==
    /\ script = "lj_log" /\ pc = "l_finally"
    /\ CloseHandle
    /\ pc' = "done"
    /\ UNCHANGED <<exc, clock, iteration_count, voltages, i, views, device_log,
                   now, time_data, ain0_data, ain1_data, diff_data, sample_log,
                   pops>>
    /\ LogFrame

NextLog ==
    \/ LogRead \/ LogReadFail \/ LogAppend \/ LogTrimCheck \/ LogPop
    \/ LogPlot \/ LogPause \/ LogSleep
    \/ LogInterrupt \/ LogExcept \/ LogFinally

SpecLog == InitLog /\ [][NextLog]_vars

-----------------------------------------------------------------------------
(* Properties *)

\* Lines of a file, written out or still pending, in the order they were written.
Lines(n) == files[n].disk \o files[n].buf

\* Data rows among the lines of s.
Rows(s) == SelectSeq(s, LAMBDA l : l.kind = "row")

HeaderCount(s) == Len(SelectSeq(s, LAMBDA l : l.kind = "header"))

\* The files the running script logs to.
SinkFiles == IF script = "Multiplexer" THEN {CSV_FILENAME}
             ELSE IF script = "lj_temp" THEN {CSV_VOLTAGE_FILE, CSV_TEMP_FILE}
             ELSE {}

\* Positions of Multiplexer.py at which this cycle's row has been written.
MuxRowWrittenPcs == {"flush", "pause", "sleep", "incr"}

\* Positions of Multiplexer.py at which this cycle's row has been flushed.
MuxRowFlushedPcs == {"pause", "sleep", "incr"}

\* C1: at every observation point (after the append step of a cycle, where the
\* plots are redrawn, where the slider callback may run) the time axis and
\* every channel's series have the same length; in lj_temp.py the time buffer,
\* the two voltage buffers and the temperature buffer have the same length.
HistoryLengthInvariant ==
    /\ (script = "Multiplexer" /\ pc \in MuxObservationPcs)
          => \A c \in Channels : Len(voltage_history[c]) = Len(time_history)
    /\ (script = "lj_temp" /\ pc \in TempObservationPcs)
          => /\ Len(real_voltage_data) = Len(time_data)
             /\ Len(ain1_data) = Len(time_data)
             /\ Len(temp_data) = Len(time_data)

\* C1 witness: the slider callback has run in the third cycle, with three
\* samples in every series.
HistoryLengthWitness ==
    /\ script = "Multiplexer" /\ pc = "pause"
    /\ current_channel = 1 /\ views.ax3_title = 1
    /\ Len(time_history) = 3
    /\ \A c \in Channels : Len(voltage_history[c]) = 3

\* C2: the handle is closed and every sink file is closed at most once; the
\* cleanup does not run while the loop runs; and when the script has ended,
\* however the loop was left, the handle has been closed exactly once and every
\* sink file has been flushed and closed exactly once.
CleanupExactlyOnce ==
    /\ close_calls <= 1
    /\ \A n \in FileNames : files[n].closes <= 1
    /\ (pc \in MuxTryPcs \cup TempTryPcs) => (close_calls = 0 /\ handle = "open")
    /\ (script \in {"Multiplexer", "lj_temp"} /\ pc = "done")
          => /\ handle = "closed"
             /\ close_calls = 1
             /\ \A n \in SinkFiles : /\ files[n].stream = "closed"
                                     /\ files[n].closes = 1
                                     /\ files[n].buf = <<>>

\* C2 witness: Multiplexer.py has ended after writerow raised in its third
\* cycle, with the exception still propagating.
CleanupWitness ==
    /\ script = "Multiplexer" /\ pc = "done" /\ exc = "OSError"
    /\ iteration_count = 2
    /\ close_calls = 1 /\ files[CSV_FILENAME].closes = 1

\* C3 (as claimed): a sink file absent at start holds one header line and then
\* one line per row written; a sink file populated at start keeps every line
\* it had, gets no further header line, and gets one line per row written.
SinkHeaderHandling ==
    \A n \in SinkFiles :
        files[n].stream # "none" =>
            LET old == files0[n].disk
                cur == Lines(n)
            IN  /\ Len(cur) >= Len(old)
                /\ SubSeq(cur, 1, Len(old)) = old
                /\ HeaderCount(cur) <= 1
                /\ (pc \notin {"header", "t_header"}) => HeaderCount(cur) = 1
                /\ (script = "Multiplexer" /\ pc \in MuxTryPcs) =>
                      Len(Rows(cur)) = Len(Rows(old)) + iteration_count
                                       + (IF pc \in MuxRowWrittenPcs THEN 1 ELSE 0)

\* C4 (as claimed): when a row is about to be written, every row written
\* before it has left the stream's buffer; never is more than one row pending.
PerRowDurability ==
    /\ \A n \in SinkFiles : Len(Rows(files[n].buf)) <= 1
    /\ pc = "write" => Rows(files[CSV_FILENAME].buf) = <<>>
    /\ pc = "t_write_v" => Rows(files[CSV_VOLTAGE_FILE].buf) = <<>>
    /\ pc = "t_write_t" => Rows(files[CSV_TEMP_FILE].buf) = <<>>

\* C5: in lj_temp.py, once a cycle's append and trim are done, with n samples
\* appended so far and K points kept, each of the four buffers holds exactly
\* the last min(n, K) samples, in the order they were appended.
BoundedRetention ==
    (script = "lj_temp" /\ pc \in TempObservationPcs) =>
        LET n == Len(sample_log)
            m == IF n <= KEEP_POINTS THEN n ELSE KEEP_POINTS
        IN  /\ time_data = [j \in 1..m |-> sample_log[n - m + j].time]
            /\ real_voltage_data = [j \in 1..m |-> sample_log[n - m + j].real_voltage]
            /\ ain1_data = [j \in 1..m |-> sample_log[n - m + j].ain1]
            /\ temp_data = [j \in 1..m |-> sample_log[n - m + j].temp]

\* C5 witness: K + 5 samples appended, K kept, the oldest kept one being the
\* sixth appended.
BoundedRetentionWitness ==
    /\ script = "lj_temp" /\ pc = "t_plot"
    /\ Len(sample_log) = KEEP_POINTS + 5
    /\ Len(time_data) = KEEP_POINTS
    /\ time_data[1] = sample_log[6].time

\* C6: once cycle i has made its refresh decisions, the bars have been
\* refreshed in each of the cycles 0..i and the line plots in exactly the
\* cycles 0, M, 2M, ... up to i, with M = PLOT_UPDATE_INTERVAL.
RedrawCadence ==
    (script = "Multiplexer" /\ pc \in {"write", "flush", "pause", "sleep", "incr"}) =>
        /\ refresh_log.cheap = [j \in 1..(iteration_count + 1) |-> j - 1]
        /\ refresh_log.expensive =
              [j \in 1..((iteration_count \div PLOT_UPDATE_INTERVAL) + 1) |->
                  (j - 1) * PLOT_UPDATE_INTERVAL]

\* C6 witness: 25 cycles done, the plots refreshed in cycles 0, 10 and 20, the
\* bars 25 times.
RedrawCadenceWitness ==
    /\ script = "Multiplexer" /\ pc = "incr" /\ iteration_count = 24
    /\ refresh_log.expensive = <<0, 10, 20>>
    /\ Len(refresh_log.cheap) = 25

\* What the claim requires of a conversion result T for the voltage Zv, with
\* atLower and atUpper the results at the ends of the calibrated interval.
Saturates(Zv, T, atLower, atUpper) ==
    /\ T # NaN
    /\ Zv < LowerBoundary => T = atLower
    /\ Zv > UpperBoundary => T = atUpper

\* C7 (as claimed): every cheb_eq returns a finite value, equal to the value at
\* the lower end of the calibrated interval for every voltage below it and to
\* the value at the upper end for every voltage above it.
CalibrationClamping ==
    /\ cheb_result.mux = "returned" =>
          Saturates(Zv_arg, cheb_result.T_mux,
                    cheb_eq(LowerBoundary), cheb_eq(UpperBoundary))
    /\ cheb_result.lj_temp = "returned" =>
          Saturates(Zv_arg, cheb_result.T_lj_temp,
                    lj_temp_cheb_eq(LowerBoundary), lj_temp_cheb_eq(UpperBoundary))

\* The n-th data row the sink must hold: the n-th timestamp, the n-th reading
\* and its derived values, each as `derive` makes them.
ExpectedRow(n, derive(_)) ==
    RowLine(<<time_history[n]>>
            \o [c \in 1..MUX_CHANNELS |-> Round3V(device_log[n][c - 1])]
            \o [c \in 1..MUX_CHANNELS |-> derive(device_log[n][c - 1])])

\* The end-to-end state after n = iteration_count + 1 completed cycles of
\* Multiplexer.py on a sink file absent at start.
EndToEnd(derive(_)) ==
    (script = "Multiplexer" /\ ~files0[CSV_FILENAME].present
     /\ pc \in MuxRowFlushedPcs) =>
        LET n == iteration_count + 1
        IN  /\ Len(device_log) = n
            /\ Len(time_history) = n
            /\ \A c \in Channels :
                  voltage_history[c] = [j \in 1..n |-> device_log[j][c]]
            /\ \A c \in Channels : temperatures[c] = derive(voltages[c])
            /\ files[CSV_FILENAME].buf = <<>>
            /\ files[CSV_FILENAME].disk =
                  <<HeaderLine(headers)>> \o [j \in 1..n |-> ExpectedRow(j, derive)]

Derived3(v) == Round3T(cheb_eq(v))

\* C8 (amended): after n completed cycles on an empty history and an absent
\* sink file, the history holds the n readings in order as its raw values, the
\* derived values of a cycle are cheb_eq applied elementwise and rounded to 3
\* decimals, and the sink holds the header line and then n rows, in order,
\* each the timestamp, the rounded readings and those derived values.
EndToEndPipeline == EndToEnd(Derived3)

\* C8 (as claimed): the same with the derived values being cheb_eq applied
\* elementwise, unrounded.
EndToEndUnrounded == EndToEnd(cheb_eq)

\* C8 witness: two cycles completed on an absent file, the second reading
\* being 2.8625 V on channel 0, whose temperature is not a multiple of 0.001.
EndToEndWitness ==
    /\ script = "Multiplexer" /\ ~files0[CSV_FILENAME].present
    /\ pc = "pause" /\ iteration_count = 1
    /\ device_log[2][0] = 28625
    /\ Len(files[CSV_FILENAME].disk) = 3

\* C9: once the batched read of a cycle has failed, the script is on its
\* cleanup path or has ended, the history and the sink hold the samples of the
\* completed cycles only, no further read has been made, and when the script
\* has ended the handle and the sink file are closed.
ReadFailureTerminates ==
    (script = "Multiplexer" /\ exc = "LJMError") =>
        /\ pc \in {"finally", "with_exit", "done"}
        /\ Len(device_log) = iteration_count
        /\ Len(time_history) = iteration_count
        /\ \A c \in Channels : Len(voltage_history[c]) = iteration_count
        /\ Len(Rows(Lines(CSV_FILENAME)))
              = Len(Rows(files0[CSV_FILENAME].disk)) + iteration_count
        /\ pc = "done" => (handle = "closed" /\ files[CSV_FILENAME].stream = "closed")

\* C9 witness: the read of the third cycle failed and the script has ended.
ReadFailureWitness ==
    /\ script = "Multiplexer" /\ exc = "LJMError" /\ pc = "done"
    /\ iteration_count = 2
    /\ Len(time_history) = 2

\* C10 (as claimed): when an interrupt has stopped the loop, the last cycle's
\* append covers every channel and no row is written but unflushed.
InterruptBetweenCycles ==
    (script = "Multiplexer" /\ pc = "except") =>
        /\ \A c \in Channels : Len(voltage_history[c]) = Len(time_history)
        /\ Rows(files[CSV_FILENAME].buf) = <<>>


\* C11 (as claimed): the title of the detail plot and the series it shows
\* refer to the same channel, whenever the slider is moved.
SelectedChannelConsistency ==
    script = "Multiplexer" => views.ax3_title = views.time_plot.channel


\* Data rows a file has received in this run, written out or pending:
\* lj_temp.py starts its files empty, Multiplexer.py appends to what was there.
NewRows(n) ==
    IF script = "lj_temp" THEN Len(Rows(Lines(n)))
    ELSE Len(Rows(Lines(n))) - Len(Rows(files0[n].disk))

\* This cycle's reading has been taken and converted, and its row has not yet
\* been handed to the sink (Multiplexer.py).
MuxConvertedNotWritten ==
    /\ Len(device_log) = iteration_count + 1
    /\ voltages = Last(device_log)
    /\ temperatures = [c \in Channels |-> Round3T(cheb_eq(voltages[c]))]
    /\ NewRows(CSV_FILENAME) = iteration_count

\* The same for lj_temp.py.
TempConvertedNotWritten ==
    /\ Len(device_log) = iteration_count + 1
    /\ voltages = Last(device_log)
    /\ real_voltage = voltages[1] - voltages[0]
    /\ temp_kelvin = lj_temp_cheb_eq(real_voltage)
    /\ NewRows(CSV_VOLTAGE_FILE) = iteration_count
    /\ NewRows(CSV_TEMP_FILE) = iteration_count

\* What every step does to the histories.
AppendOrderStep ==
    /\ (script = "Multiplexer" /\ time_history' # time_history) =>
          /\ pc = "append_time"
          /\ Len(time_history) = iteration_count
          /\ time_history' = Append(time_history, timestamp)
          /\ MuxConvertedNotWritten
    /\ (script = "Multiplexer" /\ voltage_history' # voltage_history) =>
          /\ pc = "append_voltage"
          /\ \E c \in Channels :
                /\ Len(voltage_history[c]) = iteration_count
                /\ voltage_history' =
                      [voltage_history EXCEPT ![c] = Append(@, voltages[c])]
          /\ MuxConvertedNotWritten
    /\ (script = "Multiplexer" /\ pc = "write" /\ files' # files) =>
          /\ Len(time_history) = iteration_count + 1
          /\ \A c \in Channels : Len(voltage_history[c]) = iteration_count + 1
    /\ (script = "lj_temp" /\ Len(time_data') > Len(time_data)) =>
          /\ pc = "t_append" /\ i = 0
          /\ Len(sample_log) = iteration_count
          /\ time_data' = Append(time_data, now)
          /\ TempConvertedNotWritten
    /\ (script = "lj_temp" /\ Len(real_voltage_data') > Len(real_voltage_data)) =>
          /\ pc = "t_append" /\ i = 1
          /\ real_voltage_data' = Append(real_voltage_data, real_voltage)
          /\ TempConvertedNotWritten
    /\ (script = "lj_temp" /\ Len(ain1_data') > Len(ain1_data)) =>
          /\ pc = "t_append" /\ i = 2
          /\ ain1_data' = Append(ain1_data, voltages[1])
          /\ TempConvertedNotWritten
    /\ (script = "lj_temp" /\ Len(temp_data') > Len(temp_data)) =>
          /\ pc = "t_append" /\ i = 3
          /\ temp_data' = Append(temp_data, temp_kelvin)
          /\ TempConvertedNotWritten
    /\ (script = "lj_temp" /\ pc = "t_write_v" /\ files' # files) =>
          /\ Len(sample_log) = iteration_count + 1
          /\ Last(time_data) = now
          /\ Last(real_voltage_data) = real_voltage
          /\ Last(ain1_data) = voltages[1]
          /\ Last(temp_data) = temp_kelvin

\* C12: the only steps that add to the history are those of the cycle's
\* append; they add this cycle's sample once, after this cycle's readings
\* have been converted and before this cycle's row is handed to the sink; and
\* when the row is handed to the sink the append is complete.
AppendOrdering == [][AppendOrderStep]_vars

\* C12 witness: in the third cycle the row has just been handed to the sink,
\* after the conversion and the one append of that cycle.
AppendOrderingWitness ==
    /\ script = "Multiplexer" /\ pc = "flush" /\ iteration_count = 2
    /\ Len(time_history) = 3
    /\ \A c \in Channels : Len(voltage_history[c]) = 3
    /\ temperatures = [c \in Channels |-> Round3T(cheb_eq(voltages[c]))]
    /\ NewRows(CSV_FILENAME) = 3


\* C13 (as claimed): every cycle whose sample a view refresh has taken up,
\* through the bars or through the line plots, has already had its row handed
\* to the sink.
PersistBeforeRedraw ==
    script = "Multiplexer" =>
        /\ \A n \in 1..Len(refresh_log.cheap) :
              refresh_log.cheap[n] < NewRows(CSV_FILENAME)
        /\ \A n \in 1..Len(refresh_log.expensive) :
              refresh_log.expensive[n] < NewRows(CSV_FILENAME)


\* The times of the samples appended so far never go back.
TimesNonDecreasing ==
    \A n \in 1..(Len(sample_log) - 1) :
        sample_log[n].time_data <= sample_log[n + 1].time_data

\* The last Len(buf) samples appended, seen through one of their fields.
SuffixOfLog(buf, field) ==
    /\ Len(buf) <= Len(sample_log)
    /\ \A n \in 1..Len(buf) :
          buf[n] = sample_log[Len(sample_log) - Len(buf) + n][field]

\* C14: in lj_log.py, once a cycle's trim loop has ended and as long as the
\* timestamps never went back, the buffers are non-empty and end with the
\* newest sample, every retained time is within PLOT_WINDOW of now, the four
\* buffers hold the same contiguous suffix of the samples appended so far, and
\* each of the four has been popped the same number of times.
TimeWindowRetention ==
    (script = "lj_log" /\ pc \in LogTrimmedPcs /\ TimesNonDecreasing) =>
        /\ time_data # <<>>
        /\ Len(sample_log) = iteration_count + 1
        /\ Last(time_data) = now
        /\ Last(sample_log) = LogSample(now, voltages)
        /\ \A n \in 1..Len(time_data) : now - time_data[n] <= PLOT_WINDOW
        /\ SuffixOfLog(time_data, "time_data")
        /\ SuffixOfLog(ain0_data, "ain0_data")
        /\ SuffixOfLog(ain1_data, "ain1_data")
        /\ SuffixOfLog(diff_data, "diff_data")
        /\ Len(ain0_data) = Len(time_data)
        /\ Len(ain1_data) = Len(time_data)
        /\ Len(diff_data) = Len(time_data)
        /\ pops.ain0_data = pops.time_data
        /\ pops.ain1_data = pops.time_data
        /\ pops.diff_data = pops.time_data
        /\ pops.time_data = Len(sample_log) - Len(time_data)

\* C14 witness: the first three samples all fitted in the window, the fourth
\* came late, and the trim loop of the fourth cycle popped three samples from
\* every buffer and kept the newest.
TimeWindowWitness ==
    /\ script = "lj_log" /\ pc = "l_plot" /\ TimesNonDecreasing
    /\ Len(sample_log) = 4
    /\ sample_log[3].time_data - sample_log[1].time_data <= PLOT_WINDOW
    /\ pops = [time_data |-> 3, ain0_data |-> 3, ain1_data |-> 3, diff_data |-> 3]
    /\ time_data = <<now>>
    /\ ain0_data = <<Abs(voltages[0])>>
    /\ voltages[0] < 0

====
